---- MODULE Spec2Model ----
(***************************************************************************)
(* Model of the OVS kernel hooks of retis:                                 *)
(*   - src/module/ovs/bpf/kernel_enqueue.bpf.c  (kretprobe hook on         *)
(*     queue_userspace_packet, "upcall" hook)                              *)
(*   - src/module/ovs/bpf/kernel_exec_tp.bpf.c  (hook on the               *)
(*     ovs_do_execute_action tracepoint, "exec" hook, and handle_tracking) *)
(* Every CPU runs at most one hook at a time (hooks are not preemptible);  *)
(* hooks on different CPUs interleave statement by statement.  Spec is the *)
(* program with one CPU online, SpecSMP the program with all CPUs online.  *)
(***************************************************************************)
EXTENDS Integers, Sequences, FiniteSets, TLC

\* ---------------------------------------------------------------- bounds
MaxTid == 2
MaxRecirc == 1
MaxPort == 1
MaxActionType == 2

CPUs == {0, 1}
Tids == 1..MaxTid
RecircIds == 0..MaxRecirc
Ports == 0..MaxPort
Cmds == {1, 3}
Packets == {<<10>>, <<20, 7>>}

\* ------------------------------------------------------ program constants
OVS_ACTION_ATTR_OUTPUT == 1
RETIS_F_PACKET_PASS == 1

\* nla_type(attr): OVS_ACTION_ATTR_OUTPUT and the action types after it.
ActionTypes == OVS_ACTION_ATTR_OUTPUT..MaxActionType
FiltersRet == {0, RETIS_F_PACKET_PASS}

\* A pointer is <<>> when NULL and <<object>> otherwise.
NULL == <<>>
Ptr(x) == <<x>>
Deref(p) == p[1]

\* The 64-bit return-value register, as four 16-bit limbs, most significant
\* first.
Limb == 2^16
ZeroReg == <<0, 0, 0, 0>>
RetRegs == { <<0, 0, 0, 0>>,
             <<0, 0, 65535, 65524>>,
             <<65535, 65535, 65535, 65524>>,
             <<0, 1, 0, 0>>,
             <<0, 0, 32767, 65535>>,
             <<1, 2, 32768, 0>> }

\* Mutant of CastInt: the cast keeps the high half of the register.
CastIntHigh(reg) ==
    IF reg[1] >= Limb \div 2
       THEN (reg[1] - Limb) * Limb + reg[2]
       ELSE reg[1] * Limb + reg[2]

\* (int) reg : the low 32 bits, as a two's-complement signed integer.
CastInt(reg) ==
    IF reg[3] >= Limb \div 2
       THEN (reg[3] - Limb) * Limb + reg[4]
       ELSE reg[3] * Limb + reg[4]

\* x & RETIS_F_PACKET_PASS, RETIS_F_PACKET_PASS being bit 0.
BitAndPass(x) == x % 2

\* hash_skb(buff, skb): a deterministic value of the hashed bytes of the
\* packet; buff is the scratch buffer the bytes are copied to.  This is the
\* value of an undisturbed run; HashSkbCopy and TrackHash run it in two steps.
RECURSIVE HashBytes(_, _)
HashBytes(bytes, h) ==
    IF bytes = <<>> THEN h
    ELSE HashBytes(Tail(bytes), (h * 31 + Head(bytes)) % Limb)
hash_skb(buff, skb) == HashBytes(Deref(skb), 17)

\* ------------------------------------------------------------ the sections
\* get_event_section returns a zero-initialised section of the asked kind.
ZeroData(type) ==
    CASE type = "OVS_DP_UPCALL_QUEUE"  -> [ret |-> 0, cmd |-> 0, port |-> 0]
      [] type = "OVS_DP_ACTION"        -> [action |-> 0, recirc_id |-> 0]
      [] type = "OVS_DP_ACTION_TRACK"  -> [queue_id |-> 0]
      [] type = "OVS_DP_ACTION_OUTPUT" -> [port |-> 0]

Section(type) == [owner |-> "COLLECTOR_OVS", type |-> type, data |-> ZeroData(type)]

VARIABLES
    kprobe,             \* the kprobe calling kprobe_get_func_ip: its state
    packet_buffers,     \* the packet_buffers map: [slot -> bytes it holds]
    online,             \* the CPUs probes fire on
    inflight_exec_cmd,  \* the keys (tids) present in the inflight_exec_cmd map
    pc,                 \* [CPUs -> statement the hook running there is at]
    hook,               \* [CPUs -> "none" | "upcall" | "exec"]
    ctx,                \* [CPUs -> struct retis_context and execution context]
    loc,                \* [CPUs -> the hook's local variables]
    event,              \* [CPUs -> struct retis_raw_event: its sections]
    calls               \* [CPUs -> the helpers called in this firing, in order]

vars == <<kprobe, packet_buffers, online, inflight_exec_cmd, pc, hook, ctx, loc, event, calls>>

NoCtx == [tid |-> 0, key |-> NULL, attr |-> NULL, upcall |-> NULL,
          ret |-> ZeroReg, filters_ret |-> 0, skb |-> NULL]

NoLoc == [enqueue |-> 0, exec |-> 0, track |-> 0, output |-> 0,
          inflight |-> FALSE, skb |-> NULL, buff |-> NULL, tracking |-> 0,
          rc |-> 0, outcome |-> "running"]

\* packet_buffers is a per-CPU array of one entry: the entry of key on CPU c.
PacketBufferSlot(c, key) == <<c, key>>
PacketBufferSlots == {PacketBufferSlot(c, 0) : c \in CPUs}

NoKprobe == [func_ip_exists |-> FALSE, ip |-> ZeroReg, native |-> ZeroReg,
             pc |-> "off", func_ip |-> ZeroReg, branch |-> "none"]

Booted ==
    /\ packet_buffers = [b \in PacketBufferSlots |-> <<>>]
    /\ inflight_exec_cmd = {}
    /\ pc = [c \in CPUs |-> "idle"]
    /\ hook = [c \in CPUs |-> "none"]
    /\ ctx = [c \in CPUs |-> NoCtx]
    /\ loc = [c \in CPUs |-> NoLoc]
    /\ event = [c \in CPUs |-> <<>>]
    /\ calls = [c \in CPUs |-> <<>>]

Init == online = {0} /\ kprobe = NoKprobe /\ Booted

InitSMP == online = CPUs /\ kprobe = NoKprobe /\ Booted

\* ------------------------------------------------------------ input sets
\* With all CPUs online the values the hooks only copy (recirculation id,
\* port, command, return value) are drawn from one value each, which keeps the
\* product of the states of two hooks small; what the hooks branch on (the
\* pointers, the action type, the tracker, the packet, the filters) is not
\* restricted.
Copied(S, x) == IF online = CPUs THEN {x} ELSE S

KeyPtrs == {NULL} \cup {Ptr([recirc_id |-> r]) : r \in Copied(RecircIds, MaxRecirc)}
AttrPtrs == {NULL} \cup {Ptr([nla_type |-> t, nla_data |-> p]) :
                            t \in ActionTypes, p \in Copied(Ports, MaxPort)}
UpcallPtrs == {NULL} \cup {Ptr([cmd |-> m, portid |-> p]) :
                            m \in Copied(Cmds, 3), p \in Copied(Ports, MaxPort)}
RetValues == Copied(RetRegs, <<0, 0, 65535, 65524>>)
SkbPtrs == {NULL} \cup {Ptr(b) : b \in Packets}

\* ------------------------------------------------------------ helpers
\* get_event_section(event, owner, type, size): on success the event gains a
\* zero-initialised section and the section is returned (its index in the
\* event); on failure the event is left alone and NULL (0) is returned.
get_event_section(ev, type, ok) == IF ok THEN Append(ev, Section(type)) ELSE ev
SectionPtr(ev, ok) == IF ok THEN Len(ev) + 1 ELSE 0

Call(c, name) == calls' = [calls EXCEPT ![c] = Append(@, name)]

\* "return 0" of a hook: the statement reached, and the value returned.
Returned(l, outcome) == [l EXCEPT !.outcome = outcome, !.rc = 0]

Running(c) == pc[c] \notin {"idle", "done"}

\* ------------------------------------------------ the external collaborator
\* Other hooks of the OVS collector insert the current task in
\* inflight_exec_cmd when a flow_exec command starts, and delete it when the
\* command ends.
InflightInsert(t) ==
    /\ t \notin inflight_exec_cmd
    /\ inflight_exec_cmd' = inflight_exec_cmd \cup {t}
    /\ UNCHANGED <<kprobe, packet_buffers, online, pc, hook, ctx, loc, event, calls>>

InflightDelete(t) ==
    /\ t \in inflight_exec_cmd
    /\ inflight_exec_cmd' = inflight_exec_cmd \ {t}
    /\ UNCHANGED <<kprobe, packet_buffers, online, pc, hook, ctx, loc, event, calls>>

\* ------------------------------------------------------------ probe firing
\* DEFINE_HOOK and DEFINE_HOOK_RAW: the hook starts at the first of the
\* statements it is given.
HookEntry(h) == IF h = "upcall" THEN "up_arg" ELSE "exec_key"

\* A probe fires on CPU c, in the task tid, with a fresh event.
Fire(c, h, t) ==
    /\ c \in online
    /\ pc[c] = "idle"
    /\ \A d \in CPUs \ {c} : Running(d) => ctx[d].tid # t
    /\ hook' = [hook EXCEPT ![c] = h]
    /\ ctx' = [ctx EXCEPT ![c] = [NoCtx EXCEPT !.tid = t]]
    /\ loc' = [loc EXCEPT ![c] = NoLoc]
    /\ event' = [event EXCEPT ![c] = <<>>]
    /\ calls' = [calls EXCEPT ![c] = <<>>]
    /\ pc' = [pc EXCEPT ![c] = HookEntry(h)]
    /\ UNCHANGED <<kprobe, packet_buffers, online, inflight_exec_cmd>>

\* The hook has returned; the CPU is free for the next probe.
Return(c) ==
    /\ pc[c] = "done"
    /\ pc' = [pc EXCEPT ![c] = "idle"]
    /\ hook' = [hook EXCEPT ![c] = "none"]
    /\ ctx' = [ctx EXCEPT ![c] = NoCtx]
    /\ loc' = [loc EXCEPT ![c] = NoLoc]
    /\ event' = [event EXCEPT ![c] = <<>>]
    /\ calls' = [calls EXCEPT ![c] = <<>>]
    /\ UNCHANGED <<kprobe, packet_buffers, online, inflight_exec_cmd>>

\* --------------------------------------- kretprobe:queue_userspace_packet
\* Mutant of UpArg: the hook first returns when the packet did not pass the
\* filters.
UpArgFiltered(c) ==
    /\ pc[c] = "up_arg"
    /\ \E u \in UpcallPtrs, f \in FiltersRet :
          /\ ctx' = [ctx EXCEPT ![c].upcall = u, ![c].filters_ret = f]
          /\ IF BitAndPass(f) = 0
                THEN /\ pc' = [pc EXCEPT ![c] = "done"]
                     /\ loc' = [loc EXCEPT ![c] = Returned(@, "discarded")]
                ELSE IF u = NULL
                THEN /\ pc' = [pc EXCEPT ![c] = "done"]
                     /\ loc' = [loc EXCEPT ![c] = Returned(@, "missing_input")]
                ELSE /\ pc' = [pc EXCEPT ![c] = "up_reserve"]
                     /\ UNCHANGED loc
    /\ UNCHANGED <<kprobe, packet_buffers, online, inflight_exec_cmd, hook,
                   event, calls>>

\* upcall = ctx->regs.reg[3]; if (!upcall) return 0;
UpArg(c) ==
    /\ pc[c] = "up_arg"
    /\ \E u \in UpcallPtrs :
          /\ ctx' = [ctx EXCEPT ![c].upcall = u]
          /\ IF u = NULL
                THEN /\ pc' = [pc EXCEPT ![c] = "done"]
                     /\ loc' = [loc EXCEPT ![c] = Returned(@, "missing_input")]
                ELSE /\ pc' = [pc EXCEPT ![c] = "up_reserve"]
                     /\ UNCHANGED loc
    /\ UNCHANGED <<kprobe, packet_buffers, online, inflight_exec_cmd, hook, event, calls>>

\* enqueue = get_event_section(...); if (!enqueue) return 0;
UpReserve(c) ==
    /\ pc[c] = "up_reserve"
    /\ Call(c, "get_event_section:OVS_DP_UPCALL_QUEUE")
    /\ \E ok \in BOOLEAN :
          /\ event' = [event EXCEPT
                         ![c] = get_event_section(@, "OVS_DP_UPCALL_QUEUE", ok)]
          /\ IF ok
                THEN /\ loc' = [loc EXCEPT ![c].enqueue = SectionPtr(event[c], ok)]
                     /\ pc' = [pc EXCEPT ![c] = "up_fill"]
                ELSE /\ loc' = [loc EXCEPT ![c] = Returned(@, "reserve_failed")]
                     /\ pc' = [pc EXCEPT ![c] = "done"]
    /\ UNCHANGED <<kprobe, packet_buffers, online, inflight_exec_cmd, hook, ctx>>

\* Mutant of UpFill: the port and the command are written to each other's
\* field.
UpFillSwapped(c) ==
    /\ pc[c] = "up_fill"
    /\ \E r \in RetValues :
          /\ ctx' = [ctx EXCEPT ![c].ret = r]
          /\ event' = [event EXCEPT ![c][loc[c].enqueue].data =
                         [port |-> Deref(ctx[c].upcall).cmd,
                          cmd |-> Deref(ctx[c].upcall).portid,
                          ret |-> CastInt(r)]]
    /\ loc' = [loc EXCEPT ![c] = Returned(@, "emitted")]
    /\ pc' = [pc EXCEPT ![c] = "done"]
    /\ UNCHANGED <<kprobe, packet_buffers, online, inflight_exec_cmd, hook, calls>>

\* enqueue->port = upcall->portid; enqueue->cmd = upcall->cmd;
\* enqueue->ret = (int) ctx->regs.ret; return 0;
UpFill(c) ==
    /\ pc[c] = "up_fill"
    /\ \E r \in RetValues :
          /\ ctx' = [ctx EXCEPT ![c].ret = r]
          /\ event' = [event EXCEPT ![c][loc[c].enqueue].data =
                         [port |-> Deref(ctx[c].upcall).portid,
                          cmd |-> Deref(ctx[c].upcall).cmd,
                          ret |-> CastInt(r)]]
    /\ loc' = [loc EXCEPT ![c] = Returned(@, "emitted")]
    /\ pc' = [pc EXCEPT ![c] = "done"]
    /\ UNCHANGED <<kprobe, packet_buffers, online, inflight_exec_cmd, hook, calls>>

\* ------------------------------------- tracepoint:ovs_do_execute_action
\* key = ctx->regs.reg[2]; if (!key) return 0;
ExecKey(c) ==
    /\ pc[c] = "exec_key"
    /\ \E k \in KeyPtrs :
          /\ ctx' = [ctx EXCEPT ![c].key = k]
          /\ IF k = NULL
                THEN /\ pc' = [pc EXCEPT ![c] = "done"]
                     /\ loc' = [loc EXCEPT ![c] = Returned(@, "missing_input")]
                ELSE /\ pc' = [pc EXCEPT ![c] = "exec_attr"]
                     /\ UNCHANGED loc
    /\ UNCHANGED <<kprobe, packet_buffers, online, inflight_exec_cmd, hook, event, calls>>

\* Mutant of ExecAttr: the attribute pointer is not checked.
ExecAttrNoCheck(c) ==
    /\ pc[c] = "exec_attr"
    /\ \E a \in AttrPtrs : ctx' = [ctx EXCEPT ![c].attr = a]
    /\ pc' = [pc EXCEPT ![c] = "exec_reserve"]
    /\ UNCHANGED <<kprobe, packet_buffers, online, inflight_exec_cmd, hook, loc, event, calls>>

\* attr = ctx->regs.reg[3]; if (!attr) return 0;
ExecAttr(c) ==
    /\ pc[c] = "exec_attr"
    /\ \E a \in AttrPtrs :
          /\ ctx' = [ctx EXCEPT ![c].attr = a]
          /\ IF a = NULL
                THEN /\ pc' = [pc EXCEPT ![c] = "done"]
                     /\ loc' = [loc EXCEPT ![c] = Returned(@, "missing_input")]
                ELSE /\ pc' = [pc EXCEPT ![c] = "exec_reserve"]
                     /\ UNCHANGED loc
    /\ UNCHANGED <<kprobe, packet_buffers, online, inflight_exec_cmd, hook, event, calls>>

\* Mutant of ExecReserve: a failed reservation skips the writes to the
\* section but not the rest of the hook.
ExecReserveNoAbort(c) ==
    /\ pc[c] = "exec_reserve"
    /\ Call(c, "get_event_section:OVS_DP_ACTION")
    /\ \E ok \in BOOLEAN :
          /\ event' = [event EXCEPT
                         ![c] = get_event_section(@, "OVS_DP_ACTION", ok)]
          /\ loc' = [loc EXCEPT ![c].exec = SectionPtr(event[c], ok)]
          /\ pc' = [pc EXCEPT ![c] = IF ok THEN "exec_fill" ELSE "track_lookup"]
    /\ UNCHANGED <<kprobe, packet_buffers, online, inflight_exec_cmd, hook, ctx>>

\* exec = get_event_section(..., OVS_DP_ACTION, ...); if (!exec) return 0;
ExecReserve(c) ==
    /\ pc[c] = "exec_reserve"
    /\ Call(c, "get_event_section:OVS_DP_ACTION")
    /\ \E ok \in BOOLEAN :
          /\ event' = [event EXCEPT
                         ![c] = get_event_section(@, "OVS_DP_ACTION", ok)]
          /\ IF ok
                THEN /\ loc' = [loc EXCEPT ![c].exec = SectionPtr(event[c], ok)]
                     /\ pc' = [pc EXCEPT ![c] = "exec_fill"]
                ELSE /\ loc' = [loc EXCEPT ![c] = Returned(@, "reserve_failed")]
                     /\ pc' = [pc EXCEPT ![c] = "done"]
    /\ UNCHANGED <<kprobe, packet_buffers, online, inflight_exec_cmd, hook, ctx>>

\* exec->action = nla_type(attr); exec->recirc_id = key->recirc_id;
ExecFill(c) ==
    /\ pc[c] = "exec_fill"
    /\ event' = [event EXCEPT ![c][loc[c].exec].data =
                   [action |-> Deref(ctx[c].attr).nla_type,
                    recirc_id |-> Deref(ctx[c].key).recirc_id]]
    /\ pc' = [pc EXCEPT ![c] = "track_lookup"]
    /\ UNCHANGED <<kprobe, packet_buffers, online, inflight_exec_cmd, hook, ctx, loc, calls>>

\* Mutant of TrackLookup: a hit takes the entry out of the map.
TrackLookupConsume(c) ==
    /\ pc[c] = "track_lookup"
    /\ Call(c, "bpf_map_lookup_elem:inflight_exec_cmd")
    /\ IF ctx[c].tid \in inflight_exec_cmd
          THEN /\ loc' = [loc EXCEPT ![c].inflight = TRUE]
               /\ pc' = [pc EXCEPT ![c] = "track_skb"]
               /\ inflight_exec_cmd' = inflight_exec_cmd \ {ctx[c].tid}
          ELSE /\ loc' = [loc EXCEPT ![c].inflight = FALSE, ![c].tracking = 0]
               /\ pc' = [pc EXCEPT ![c] = "exec_discard"]
               /\ UNCHANGED inflight_exec_cmd
    /\ UNCHANGED <<kprobe, packet_buffers, online, hook, ctx, event>>

\* Mutant of TrackLookup: on a miss handle_tracking goes on to the packet.
TrackLookupContinue(c) ==
    /\ pc[c] = "track_lookup"
    /\ Call(c, "bpf_map_lookup_elem:inflight_exec_cmd")
    /\ loc' = [loc EXCEPT ![c].inflight = ctx[c].tid \in inflight_exec_cmd]
    /\ pc' = [pc EXCEPT ![c] = "track_skb"]
    /\ UNCHANGED <<kprobe, packet_buffers, online, inflight_exec_cmd, hook, ctx, event>>

\* handle_tracking: tid = bpf_get_current_pid_tgid();
\* if (!bpf_map_lookup_elem(&inflight_exec_cmd, &tid)) return 0;
TrackLookup(c) ==
    /\ pc[c] = "track_lookup"
    /\ Call(c, "bpf_map_lookup_elem:inflight_exec_cmd")
    /\ IF ctx[c].tid \in inflight_exec_cmd
          THEN /\ loc' = [loc EXCEPT ![c].inflight = TRUE]
               /\ pc' = [pc EXCEPT ![c] = "track_skb"]
          ELSE /\ loc' = [loc EXCEPT ![c].inflight = FALSE, ![c].tracking = 0]
               /\ pc' = [pc EXCEPT ![c] = "exec_discard"]
    /\ UNCHANGED <<kprobe, packet_buffers, online, inflight_exec_cmd, hook, ctx, event>>

\* Mutant of TrackSkb: a missing packet drops the sections of the event and
\* ends the hook.
TrackSkbAbort(c) ==
    /\ pc[c] = "track_skb"
    /\ Call(c, "retis_get_sk_buff")
    /\ \E s \in SkbPtrs :
          /\ ctx' = [ctx EXCEPT ![c].skb = s]
          /\ IF s = NULL
                THEN /\ loc' = [loc EXCEPT ![c] = Returned(@, "discarded")]
                     /\ event' = [event EXCEPT ![c] = <<>>]
                     /\ pc' = [pc EXCEPT ![c] = "done"]
                ELSE /\ loc' = [loc EXCEPT ![c].skb = s]
                     /\ pc' = [pc EXCEPT ![c] = "track_buff"]
                     /\ UNCHANGED event
    /\ UNCHANGED <<kprobe, packet_buffers, online, inflight_exec_cmd, hook>>

\* handle_tracking: skb = retis_get_sk_buff(ctx); if (!skb) return -1;
TrackSkb(c) ==
    /\ pc[c] = "track_skb"
    /\ Call(c, "retis_get_sk_buff")
    /\ \E s \in SkbPtrs :
          /\ ctx' = [ctx EXCEPT ![c].skb = s]
          /\ IF s = NULL
                THEN /\ loc' = [loc EXCEPT ![c].tracking = -1]
                     /\ pc' = [pc EXCEPT ![c] = "exec_discard"]
                ELSE /\ loc' = [loc EXCEPT ![c].skb = s]
                     /\ pc' = [pc EXCEPT ![c] = "track_buff"]
    /\ UNCHANGED <<kprobe, packet_buffers, online, inflight_exec_cmd, hook, event>>

\* Mutant of TrackBuff: the lookup of key 0 gives the same entry on every
\* CPU.
TrackBuffShared(c) ==
    /\ pc[c] = "track_buff"
    /\ Call(c, "bpf_map_lookup_elem:packet_buffers")
    /\ \E b \in {NULL, Ptr(PacketBufferSlot(0, 0))} :
          IF b = NULL
             THEN /\ loc' = [loc EXCEPT ![c].tracking = -1]
                  /\ pc' = [pc EXCEPT ![c] = "exec_discard"]
             ELSE /\ loc' = [loc EXCEPT ![c].buff = b]
                  /\ pc' = [pc EXCEPT ![c] = "track_reserve"]
    /\ UNCHANGED <<kprobe, packet_buffers, online, inflight_exec_cmd, hook, ctx, event>>

\* handle_tracking: buff = bpf_map_lookup_elem(&packet_buffers, &zero);
\* if (!buff) return -1;
TrackBuff(c) ==
    /\ pc[c] = "track_buff"
    /\ Call(c, "bpf_map_lookup_elem:packet_buffers")
    /\ \E b \in {NULL, Ptr(PacketBufferSlot(c, 0))} :
          IF b = NULL
             THEN /\ loc' = [loc EXCEPT ![c].tracking = -1]
                  /\ pc' = [pc EXCEPT ![c] = "exec_discard"]
             ELSE /\ loc' = [loc EXCEPT ![c].buff = b]
                  /\ pc' = [pc EXCEPT ![c] = "track_reserve"]
    /\ UNCHANGED <<kprobe, packet_buffers, online, inflight_exec_cmd, hook, ctx, event>>

\* Mutant of TrackReserve: a failed reservation returns 0, as a tracker miss
\* does.
TrackReserveMiss(c) ==
    /\ pc[c] = "track_reserve"
    /\ Call(c, "get_event_section:OVS_DP_ACTION_TRACK")
    /\ \E ok \in BOOLEAN :
          /\ event' = [event EXCEPT
                         ![c] = get_event_section(@, "OVS_DP_ACTION_TRACK", ok)]
          /\ IF ok
                THEN /\ loc' = [loc EXCEPT ![c].track = SectionPtr(event[c], ok)]
                     /\ pc' = [pc EXCEPT ![c] = "track_hash"]
                ELSE /\ loc' = [loc EXCEPT ![c].tracking = 0]
                     /\ pc' = [pc EXCEPT ![c] = "exec_discard"]
    /\ UNCHANGED <<kprobe, packet_buffers, online, inflight_exec_cmd, hook, ctx>>

\* handle_tracking: track = get_event_section(..., OVS_DP_ACTION_TRACK, ...);
\* if (!track) return -1;
TrackReserve(c) ==
    /\ pc[c] = "track_reserve"
    /\ Call(c, "get_event_section:OVS_DP_ACTION_TRACK")
    /\ \E ok \in BOOLEAN :
          /\ event' = [event EXCEPT
                         ![c] = get_event_section(@, "OVS_DP_ACTION_TRACK", ok)]
          /\ IF ok
                THEN /\ loc' = [loc EXCEPT ![c].track = SectionPtr(event[c], ok)]
                     /\ pc' = [pc EXCEPT ![c] = "track_hash"]
                ELSE /\ loc' = [loc EXCEPT ![c].tracking = -1]
                     /\ pc' = [pc EXCEPT ![c] = "exec_discard"]
    /\ UNCHANGED <<kprobe, packet_buffers, online, inflight_exec_cmd, hook, ctx>>

\* hash_skb(buff, skb), first half: the hashed bytes of the packet are copied
\* to the scratch buffer.
HashSkbCopy(c) ==
    /\ pc[c] = "track_hash"
    /\ Call(c, "hash_skb")
    /\ packet_buffers' = [packet_buffers EXCEPT
                            ![Deref(loc[c].buff)] = Deref(loc[c].skb)]
    /\ pc' = [pc EXCEPT ![c] = "track_queue_id"]
    /\ UNCHANGED <<kprobe, online, inflight_exec_cmd, hook, ctx, loc, event>>

\* Mutant of TrackHash: the section is reserved once more before it is
\* written.
TrackHashReserveAgain(c) ==
    /\ pc[c] = "track_queue_id"
    /\ event' = [event EXCEPT
                   ![c] = Append([@ EXCEPT ![loc[c].track].data =
                                     [queue_id |-> hash_skb(loc[c].buff, loc[c].skb)]],
                                 Section("OVS_DP_ACTION_TRACK"))]
    /\ loc' = [loc EXCEPT ![c].tracking = 1]
    /\ pc' = [pc EXCEPT ![c] = "exec_discard"]
    /\ UNCHANGED <<kprobe, packet_buffers, online, inflight_exec_cmd, hook, ctx,
                   calls>>

\* Mutant of TrackHash: the queue id is the task id, not the packet's hash.
TrackHashTid(c) ==
    /\ pc[c] = "track_queue_id"
    /\ event' = [event EXCEPT ![c][loc[c].track].data =
                   [queue_id |-> ctx[c].tid]]
    /\ loc' = [loc EXCEPT ![c].tracking = 1]
    /\ pc' = [pc EXCEPT ![c] = "exec_discard"]
    /\ UNCHANGED <<kprobe, packet_buffers, online, inflight_exec_cmd, hook, ctx,
                   calls>>

\* hash_skb(buff, skb), second half, and handle_tracking: the bytes in the
\* scratch buffer are hashed; track->queue_id = hash_skb(buff, skb); return 1;
TrackHash(c) ==
    /\ pc[c] = "track_queue_id"
    /\ event' = [event EXCEPT ![c][loc[c].track].data =
                   [queue_id |-> HashBytes(packet_buffers[Deref(loc[c].buff)], 17)]]
    /\ loc' = [loc EXCEPT ![c].tracking = 1]
    /\ pc' = [pc EXCEPT ![c] = "exec_discard"]
    /\ UNCHANGED <<kprobe, packet_buffers, online, inflight_exec_cmd, hook, ctx,
                   calls>>

\* Mutant of Discard: an error of handle_tracking counts as a tracker miss.
DiscardOnError(tracking, filters_ret) ==
    /\ tracking <= 0
    /\ ~(BitAndPass(filters_ret) # 0)

\* Mutant of Discard: a tracker miss discards the firing whatever the
\* filters said.
DiscardMiss(tracking, filters_ret) == ~(tracking # 0)

\* !handle_tracking(ctx, event) && !(ctx->filters_ret & RETIS_F_PACKET_PASS)
Discard(tracking, filters_ret) ==
    /\ ~(tracking # 0)
    /\ ~(BitAndPass(filters_ret) # 0)

\* Mutant of ExecDiscard: the discard test looks the task up in the map again
\* instead of using what handle_tracking returned.
ExecDiscardReread(c) ==
    /\ pc[c] = "exec_discard"
    /\ \E f \in FiltersRet :
          /\ ctx' = [ctx EXCEPT ![c].filters_ret = f]
          /\ IF ctx[c].tid \notin inflight_exec_cmd /\ ~(BitAndPass(f) # 0)
                THEN /\ loc' = [loc EXCEPT ![c] = Returned(@, "discarded")]
                     /\ pc' = [pc EXCEPT ![c] = "done"]
                ELSE /\ pc' = [pc EXCEPT ![c] = "exec_switch"]
                     /\ UNCHANGED loc
    /\ UNCHANGED <<kprobe, packet_buffers, online, inflight_exec_cmd, hook, event, calls>>

\* if (!handle_tracking(...) && !(filters_ret & RETIS_F_PACKET_PASS)) return 0;
ExecDiscard(c) ==
    /\ pc[c] = "exec_discard"
    /\ \E f \in FiltersRet :
          /\ ctx' = [ctx EXCEPT ![c].filters_ret = f]
          /\ IF Discard(loc[c].tracking, f)
                THEN /\ loc' = [loc EXCEPT ![c] = Returned(@, "discarded")]
                     /\ pc' = [pc EXCEPT ![c] = "done"]
                ELSE /\ pc' = [pc EXCEPT ![c] = "exec_switch"]
                     /\ UNCHANGED loc
    /\ UNCHANGED <<kprobe, packet_buffers, online, inflight_exec_cmd, hook, event, calls>>

\* Mutant of IsOutputAction: the case also takes the action types after
\* OVS_ACTION_ATTR_OUTPUT.
IsOutputOrLater(action) == action >= OVS_ACTION_ATTR_OUTPUT

\* switch (exec->action) { case OVS_ACTION_ATTR_OUTPUT: ... }
IsOutputAction(action) == action = OVS_ACTION_ATTR_OUTPUT

\* Mutant of ExecSwitchOutput: a failed reservation is asked for again.
ExecSwitchOutputRetry(c) ==
    /\ pc[c] = "exec_switch"
    /\ IsOutputAction(event[c][loc[c].exec].data.action)
    /\ Call(c, "get_event_section:OVS_DP_ACTION_OUTPUT")
    /\ \E ok \in BOOLEAN :
          /\ event' = [event EXCEPT
                         ![c] = get_event_section(@, "OVS_DP_ACTION_OUTPUT", ok)]
          /\ IF ok
                THEN /\ loc' = [loc EXCEPT ![c].output = SectionPtr(event[c], ok)]
                     /\ pc' = [pc EXCEPT ![c] = "exec_port"]
                ELSE /\ UNCHANGED <<loc, pc>>
    /\ UNCHANGED <<kprobe, packet_buffers, online, inflight_exec_cmd, hook, ctx>>

\* case OVS_ACTION_ATTR_OUTPUT: output = get_event_section(...,
\* OVS_DP_ACTION_OUTPUT, ...); if (!output) return 0;
ExecSwitchOutput(c) ==
    /\ pc[c] = "exec_switch"
    /\ IsOutputAction(event[c][loc[c].exec].data.action)
    /\ Call(c, "get_event_section:OVS_DP_ACTION_OUTPUT")
    /\ \E ok \in BOOLEAN :
          /\ event' = [event EXCEPT
                         ![c] = get_event_section(@, "OVS_DP_ACTION_OUTPUT", ok)]
          /\ IF ok
                THEN /\ loc' = [loc EXCEPT ![c].output = SectionPtr(event[c], ok)]
                     /\ pc' = [pc EXCEPT ![c] = "exec_port"]
                ELSE /\ loc' = [loc EXCEPT ![c] = Returned(@, "kept")]
                     /\ pc' = [pc EXCEPT ![c] = "done"]
    /\ UNCHANGED <<kprobe, packet_buffers, online, inflight_exec_cmd, hook, ctx>>

\* Any other action: the switch has no case for it; return 0.
ExecSwitchOther(c) ==
    /\ pc[c] = "exec_switch"
    /\ ~IsOutputAction(event[c][loc[c].exec].data.action)
    /\ loc' = [loc EXCEPT ![c] = Returned(@, "kept")]
    /\ pc' = [pc EXCEPT ![c] = "done"]
    /\ UNCHANGED <<kprobe, packet_buffers, online, inflight_exec_cmd, hook, ctx, event, calls>>

\* bpf_probe_read_kernel(&output->port, sizeof(output->port), nla_data(attr));
\* break; return 0;
ExecPort(c) ==
    /\ pc[c] = "exec_port"
    /\ Call(c, "bpf_probe_read_kernel")
    /\ event' = [event EXCEPT ![c][loc[c].output].data =
                   [port |-> Deref(ctx[c].attr).nla_data]]
    /\ loc' = [loc EXCEPT ![c] = Returned(@, "kept")]
    /\ pc' = [pc EXCEPT ![c] = "done"]
    /\ UNCHANGED <<kprobe, packet_buffers, online, inflight_exec_cmd, hook, ctx>>

\* ------------------------------------------------------------ specification
Next ==
    \/ \E t \in Tids : InflightInsert(t)
    \/ \E t \in Tids : InflightDelete(t)
    \/ \E c \in CPUs, h \in {"upcall", "exec"}, t \in Tids : Fire(c, h, t)
    \/ \E c \in CPUs : Return(c)
    \/ \E c \in CPUs : UpArg(c)
    \/ \E c \in CPUs : UpReserve(c)
    \/ \E c \in CPUs : UpFill(c)
    \/ \E c \in CPUs : ExecKey(c)
    \/ \E c \in CPUs : ExecAttr(c)
    \/ \E c \in CPUs : ExecReserve(c)
    \/ \E c \in CPUs : ExecFill(c)
    \/ \E c \in CPUs : TrackLookup(c)
    \/ \E c \in CPUs : TrackSkb(c)
    \/ \E c \in CPUs : TrackBuff(c)
    \/ \E c \in CPUs : TrackReserve(c)
    \/ \E c \in CPUs : HashSkbCopy(c)
    \/ \E c \in CPUs : TrackHash(c)
    \/ \E c \in CPUs : ExecDiscard(c)
    \/ \E c \in CPUs : ExecSwitchOutput(c)
    \/ \E c \in CPUs : ExecSwitchOther(c)
    \/ \E c \in CPUs : ExecPort(c)

Spec == Init /\ [][Next]_vars

SpecSMP == InitSMP /\ [][Next]_vars

\* The statements of the hook running on CPU c.
HookStep(c) ==
    \/ UpArg(c) \/ UpReserve(c) \/ UpFill(c)
    \/ ExecKey(c) \/ ExecAttr(c) \/ ExecReserve(c) \/ ExecFill(c)
    \/ TrackLookup(c) \/ TrackSkb(c) \/ TrackBuff(c) \/ TrackReserve(c)
    \/ HashSkbCopy(c) \/ TrackHash(c)
    \/ ExecDiscard(c) \/ ExecSwitchOutput(c) \/ ExecSwitchOther(c)
    \/ ExecPort(c)

\* A BPF program runs to completion on its CPU: it is not preempted by the
\* task it interrupted, it cannot sleep, and the verifier bounds its length.
SpecFair == Init /\ [][Next]_vars /\ \A c \in CPUs : WF_vars(HookStep(c))

\* ------------------------------------------------- kprobe_get_func_ip
\* PT_REGS_IP(ctx): the trapped program counter; bpf_get_func_ip(ctx): what the
\* kernel's helper answers.  64-bit values, as four 16-bit limbs.
IpRegs == { ZeroReg, <<0, 0, 0, 1>>, <<0, 0, 1, 0>>, <<0, 1, 0, 0>>,
            <<65535, 65535, 33024, 4101>> }
NativeIps == { ZeroReg, <<0, 0, 1, 0>>, <<65535, 65535, 33024, 4096>>,
               <<65535, 65535, 33024, 4100>> }

\* reg - 1 on a u64: the borrow goes up the limbs, and 0 wraps to 2^64 - 1.
RegMinusOne(reg) ==
    IF reg[4] > 0 THEN <<reg[1], reg[2], reg[3], reg[4] - 1>>
    ELSE IF reg[3] > 0 THEN <<reg[1], reg[2], reg[3] - 1, Limb - 1>>
    ELSE IF reg[2] > 0 THEN <<reg[1], reg[2] - 1, Limb - 1, Limb - 1>>
    ELSE IF reg[1] > 0 THEN <<reg[1] - 1, Limb - 1, Limb - 1, Limb - 1>>
    ELSE <<Limb - 1, Limb - 1, Limb - 1, Limb - 1>>

\* The program is loaded: bpf_core_enum_value_exists(...) is resolved once, for
\* the running kernel.
InitProbe ==
    /\ online = {}
    /\ Booted
    /\ \E e \in BOOLEAN :
          kprobe = [NoKprobe EXCEPT !.func_ip_exists = e, !.pc = "loaded"]

\* A kprobe traps and calls kprobe_get_func_ip(ctx).
KprobeTrap(ip, native) ==
    /\ kprobe.pc \in {"loaded", "returned"}
    /\ kprobe' = [kprobe EXCEPT !.pc = "entry", !.ip = ip, !.native = native]
    /\ UNCHANGED <<packet_buffers, online, inflight_exec_cmd, pc, hook, ctx,
                   loc, event, calls>>

\* Mutant of KprobeGetFuncIp: the fallback returns the trapped program
\* counter as it is.
KprobeGetFuncIpNoAdjust ==
    /\ kprobe.pc = "entry"
    /\ kprobe' = IF kprobe.func_ip_exists
                    THEN [kprobe EXCEPT !.pc = "returned",
                                        !.branch = "bpf_get_func_ip",
                                        !.func_ip = kprobe.native]
                    ELSE [kprobe EXCEPT !.pc = "returned",
                                        !.branch = "PT_REGS_IP",
                                        !.func_ip = kprobe.ip]
    /\ UNCHANGED <<packet_buffers, online, inflight_exec_cmd, pc, hook, ctx,
                   loc, event, calls>>

\* if (bpf_core_enum_value_exists(...)) return bpf_get_func_ip(ctx);
\* else return PT_REGS_IP(ctx) - 1;
KprobeGetFuncIp ==
    /\ kprobe.pc = "entry"
    /\ kprobe' = IF kprobe.func_ip_exists
                    THEN [kprobe EXCEPT !.pc = "returned",
                                        !.branch = "bpf_get_func_ip",
                                        !.func_ip = kprobe.native]
                    ELSE [kprobe EXCEPT !.pc = "returned",
                                        !.branch = "PT_REGS_IP",
                                        !.func_ip = RegMinusOne(kprobe.ip)]
    /\ UNCHANGED <<packet_buffers, online, inflight_exec_cmd, pc, hook, ctx,
                   loc, event, calls>>

NextProbe ==
    \/ \E ip \in IpRegs, native \in NativeIps : KprobeTrap(ip, native)
    \/ KprobeGetFuncIp

SpecProbe == InitProbe /\ [][NextProbe]_vars

\* ------------------------------------------------------------ observations
Range(q) == {q[i] : i \in DOMAIN q}
Called(c, name) == name \in Range(calls[c])
HasSection(ev, type) == \E i \in DOMAIN ev : ev[i].type = type
CountSections(ev, type) == Cardinality({i \in DOMAIN ev : ev[i].type = type})

UpcallRecord(ret, cmd, port) ==
    [owner |-> "COLLECTOR_OVS", type |-> "OVS_DP_UPCALL_QUEUE",
     data |-> [ret |-> ret, cmd |-> cmd, port |-> port]]
ActionRecord(action, recirc_id) ==
    [owner |-> "COLLECTOR_OVS", type |-> "OVS_DP_ACTION",
     data |-> [action |-> action, recirc_id |-> recirc_id]]
TrackingRecord(queue_id) ==
    [owner |-> "COLLECTOR_OVS", type |-> "OVS_DP_ACTION_TRACK",
     data |-> [queue_id |-> queue_id]]
OutputRecord(port) ==
    [owner |-> "COLLECTOR_OVS", type |-> "OVS_DP_ACTION_OUTPUT",
     data |-> [port |-> port]]

ExecDone(c) == hook[c] = "exec" /\ pc[c] = "done"
UpcallDone(c) == hook[c] = "upcall" /\ pc[c] = "done"

\* The tracker was looked up in this firing, and what the lookup found.
LookedUp(c) == Called(c, "bpf_map_lookup_elem:inflight_exec_cmd")
TrackerHit(c) == LookedUp(c) /\ loc[c].inflight
TrackerMiss(c) == LookedUp(c) /\ ~loc[c].inflight

\* The coarse packet-matching predicate of the firing.
PacketPass(c) == ctx[c].filters_ret \in {f \in FiltersRet : f % 2 = 1}

\* The fingerprint could not be produced: no packet, or no scratch buffer.
SkbMissing(c) == Called(c, "retis_get_sk_buff") /\ ctx[c].skb = NULL
BuffMissing(c) ==
    Called(c, "bpf_map_lookup_elem:packet_buffers") /\ loc[c].buff = NULL
FingerprintFailed(c) == TrackerHit(c) /\ (SkbMissing(c) \/ BuffMissing(c))

\* ---------------------------------------------------------------- claims

\* C1: an ActionTraceHook firing with a tracker miss and a false coarse
\* packet-matching predicate emits zero records: when the handler returns the
\* event carries no ActionRecord, no TrackingRecord and no OutputRecord.
C1_DiscardEmitsNothing ==
    \A c \in CPUs :
        (ExecDone(c) /\ TrackerMiss(c) /\ ~PacketPass(c)) => event[c] = <<>>

\* C2, as stated: every UpcallHook firing with a non-null descriptor emits
\* exactly one UpcallRecord, whose fields are the descriptor's cmd and portid
\* and the return value.
C2_Original ==
    \A c \in CPUs :
        (UpcallDone(c) /\ ctx[c].upcall # NULL) =>
            event[c] = << UpcallRecord(CastInt(ctx[c].ret),
                                       Deref(ctx[c].upcall).cmd,
                                       Deref(ctx[c].upcall).portid) >>

\* C2, amended: every UpcallHook firing with a non-null descriptor whose
\* UpcallRecord reservation succeeds emits exactly one UpcallRecord, whose
\* fields are the descriptor's cmd and portid and the return value.
C2_UpcallRecordCopied ==
    \A c \in CPUs :
        (UpcallDone(c) /\ ctx[c].upcall # NULL /\ loc[c].enqueue # 0) =>
            event[c] = << UpcallRecord(CastInt(ctx[c].ret),
                                       Deref(ctx[c].upcall).cmd,
                                       Deref(ctx[c].upcall).portid) >>

C2_Witness ==
    \E c \in CPUs :
        /\ UpcallDone(c) /\ ctx[c].upcall # NULL /\ loc[c].enqueue # 0
        /\ event[c] = << UpcallRecord(0, 3, 1) >>

\* C3, as stated: a fingerprint failure is classified like a tracker miss, so
\* with a false coarse packet-matching predicate the firing takes the discard
\* branch.
C3_Original ==
    \A c \in CPUs :
        (ExecDone(c) /\ FingerprintFailed(c) /\ ~PacketPass(c)) =>
            loc[c].outcome = "discarded"

\* C3, amended: a fingerprint failure makes handle_tracking return -1, which
\* the discard test does not take for a tracker miss: the firing is kept
\* whatever the coarse packet-matching predicate, without a TrackingRecord.
C3_FingerprintFailureKept ==
    \A c \in CPUs :
        (ExecDone(c) /\ FingerprintFailed(c)) =>
            /\ loc[c].tracking = -1
            /\ loc[c].outcome = "kept"
            /\ ~HasSection(event[c], "OVS_DP_ACTION_TRACK")

C3_Witness ==
    \E c \in CPUs :
        /\ ExecDone(c) /\ FingerprintFailed(c) /\ ~PacketPass(c)
        /\ loc[c].outcome = "kept"

\* The sections an ActionTraceHook firing is expected to have written.
ExpectedAction(c) ==
    ActionRecord(Deref(ctx[c].attr).nla_type, Deref(ctx[c].key).recirc_id)
ExpectedOutput(c) == OutputRecord(Deref(ctx[c].attr).nla_data)
ExpectedTracking(c) == TrackingRecord(hash_skb(loc[c].buff, ctx[c].skb))
OutputAttr(c) == Deref(ctx[c].attr).nla_type = OVS_ACTION_ATTR_OUTPUT

\* The reservations asked for in this firing, in order.
IsReservation(name) ==
    name \in {"get_event_section:OVS_DP_UPCALL_QUEUE",
              "get_event_section:OVS_DP_ACTION",
              "get_event_section:OVS_DP_ACTION_TRACK",
              "get_event_section:OVS_DP_ACTION_OUTPUT"}
Reservations(c) == SelectSeq(calls[c], IsReservation)

\* C4: a fingerprint failure leaves the ActionRecord of the event in place
\* with its actionType and recircId; no TrackingRecord is attached, and the
\* rest of the hook runs as it does after a fingerprint: the OutputRecord is
\* reserved exactly for an OUTPUT action.
C4_FingerprintFailureKeepsAction ==
    \A c \in CPUs :
        (hook[c] = "exec" /\ FingerprintFailed(c)) =>
            /\ Len(event[c]) >= 1
            /\ event[c][1] = ExpectedAction(c)
            /\ ~HasSection(event[c], "OVS_DP_ACTION_TRACK")
            /\ pc[c] = "done" =>
                 /\ OutputAttr(c) <=>
                        Called(c, "get_event_section:OVS_DP_ACTION_OUTPUT")
                 /\ event[c] = IF OutputAttr(c) /\ loc[c].output # 0
                                  THEN <<ExpectedAction(c), ExpectedOutput(c)>>
                                  ELSE <<ExpectedAction(c)>>

C4_Witness ==
    \E c \in CPUs :
        /\ ExecDone(c) /\ FingerprintFailed(c) /\ SkbMissing(c)
        /\ event[c] = <<ActionRecord(OVS_ACTION_ATTR_OUTPUT, 1), OutputRecord(1)>>

\* C5: an OutputRecord is present in an event only if the ActionRecord's
\* actionType is OUTPUT; a kept firing of any other action type asks for no
\* OutputRecord and has none.
C5_OutputOnlyForOutputAction ==
    \A c \in CPUs :
        hook[c] = "exec" =>
            /\ HasSection(event[c], "OVS_DP_ACTION_OUTPUT") =>
                 /\ event[c][1].type = "OVS_DP_ACTION"
                 /\ event[c][1].data.action = OVS_ACTION_ATTR_OUTPUT
            /\ (pc[c] = "done" /\ loc[c].outcome = "kept" /\ ~OutputAttr(c)) =>
                 /\ ~Called(c, "get_event_section:OVS_DP_ACTION_OUTPUT")
                 /\ ~HasSection(event[c], "OVS_DP_ACTION_OUTPUT")

C5_Witness ==
    \E c \in CPUs :
        /\ ExecDone(c) /\ loc[c].outcome = "kept" /\ ~OutputAttr(c)
        /\ TrackerMiss(c) /\ PacketPass(c)
        /\ event[c] = <<ExpectedAction(c)>>

\* C6: an OUTPUT firing with both inputs, a tracker hit, a fingerprint and
\* three successful reservations leaves exactly the ActionRecord, the
\* TrackingRecord of the packet's fingerprint and the OutputRecord of the
\* attribute's port, reserved in that order.
C6_FullOutputEvent ==
    \A c \in CPUs :
        (/\ ExecDone(c) /\ ctx[c].key # NULL /\ ctx[c].attr # NULL
         /\ OutputAttr(c) /\ TrackerHit(c)
         /\ loc[c].exec # 0 /\ loc[c].track # 0 /\ loc[c].output # 0) =>
            /\ event[c] = <<ExpectedAction(c), ExpectedTracking(c),
                            ExpectedOutput(c)>>
            /\ Reservations(c) = <<"get_event_section:OVS_DP_ACTION",
                                   "get_event_section:OVS_DP_ACTION_TRACK",
                                   "get_event_section:OVS_DP_ACTION_OUTPUT">>

C6_Witness ==
    \E c \in CPUs :
        /\ ExecDone(c) /\ TrackerHit(c)
        /\ event[c] = <<ActionRecord(OVS_ACTION_ATTR_OUTPUT, 1),
                        TrackingRecord(hash_skb(Ptr(PacketBufferSlot(0, 0)), Ptr(<<20, 7>>))),
                        OutputRecord(1)>>

\* C7: when the reservation of the first section fails the hook returns at
\* once: the event has no section, and the failed reservation is the only
\* helper called (no tracker lookup, no packet, no further reservation).
C7_FirstReservationFailure ==
    \A c \in CPUs :
        /\ (/\ hook[c] = "exec"
            /\ Called(c, "get_event_section:OVS_DP_ACTION")
            /\ loc[c].exec = 0) =>
              /\ pc[c] = "done"
              /\ event[c] = <<>>
              /\ calls[c] = <<"get_event_section:OVS_DP_ACTION">>
        /\ (/\ hook[c] = "upcall"
            /\ Called(c, "get_event_section:OVS_DP_UPCALL_QUEUE")
            /\ loc[c].enqueue = 0) =>
              /\ pc[c] = "done"
              /\ event[c] = <<>>
              /\ calls[c] = <<"get_event_section:OVS_DP_UPCALL_QUEUE">>

C7_Witness ==
    \E c \in CPUs :
        /\ ExecDone(c) /\ ctx[c].tid \in inflight_exec_cmd
        /\ Called(c, "get_event_section:OVS_DP_ACTION") /\ loc[c].exec = 0

\* C8: a failed TrackingRecord reservation leaves the ActionRecord and still
\* has the OutputRecord reserved for an OUTPUT action; a failed OutputRecord
\* reservation leaves the ActionRecord and the TrackingRecord already attached.
C8_OptionalReservationFailure ==
    \A c \in CPUs :
        ExecDone(c) =>
            /\ (/\ Called(c, "get_event_section:OVS_DP_ACTION_TRACK")
                /\ loc[c].track = 0) =>
                  /\ OutputAttr(c) <=>
                         Called(c, "get_event_section:OVS_DP_ACTION_OUTPUT")
                  /\ event[c] = IF OutputAttr(c) /\ loc[c].output # 0
                                   THEN <<ExpectedAction(c), ExpectedOutput(c)>>
                                   ELSE <<ExpectedAction(c)>>
            /\ (/\ Called(c, "get_event_section:OVS_DP_ACTION_OUTPUT")
                /\ loc[c].output = 0) =>
                  event[c] = IF loc[c].track # 0
                                THEN <<ExpectedAction(c), ExpectedTracking(c)>>
                                ELSE <<ExpectedAction(c)>>

C8_Witness ==
    \E c \in CPUs :
        /\ ExecDone(c) /\ ~PacketPass(c)
        /\ Called(c, "get_event_section:OVS_DP_ACTION_TRACK")
        /\ loc[c].track = 0
        /\ event[c] = <<ExpectedAction(c), ExpectedOutput(c)>>

\* C9: a firing whose input pointer is absent calls no helper at all (no
\* reservation, no tracker lookup) and leaves the event empty.
C9_MissingInputNoCalls ==
    \A c \in CPUs :
        /\ (hook[c] = "exec" /\ (ctx[c].key = NULL \/ ctx[c].attr = NULL)) =>
              /\ pc[c] \in {"exec_key", "exec_attr", "done"}
              /\ calls[c] = <<>>
              /\ event[c] = <<>>
        /\ (hook[c] = "upcall" /\ ctx[c].upcall = NULL) =>
              /\ pc[c] \in {"up_arg", "done"}
              /\ calls[c] = <<>>
              /\ event[c] = <<>>

C9_Witness ==
    \E c \in CPUs :
        /\ ExecDone(c) /\ ctx[c].key # NULL /\ ctx[c].attr = NULL
        /\ ctx[c].tid \in inflight_exec_cmd
        /\ loc[c].outcome = "missing_input"

\* C10: in every state of an ActionTraceHook firing a TrackingRecord or an
\* OutputRecord is in the event only after the ActionRecord, reserved first in
\* the same firing, and every record kind is there at most once.
C10_AttachmentsFollowAction ==
    \A c \in CPUs :
        hook[c] = "exec" =>
            /\ (\/ HasSection(event[c], "OVS_DP_ACTION_TRACK")
                \/ HasSection(event[c], "OVS_DP_ACTION_OUTPUT")) =>
                  /\ event[c][1].type = "OVS_DP_ACTION"
                  /\ loc[c].exec = 1
                  /\ Reservations(c)[1] = "get_event_section:OVS_DP_ACTION"
            /\ CountSections(event[c], "OVS_DP_ACTION") <= 1
            /\ CountSections(event[c], "OVS_DP_ACTION_TRACK") <= 1
            /\ CountSections(event[c], "OVS_DP_ACTION_OUTPUT") <= 1

C10_Witness ==
    \E c \in CPUs :
        /\ hook[c] = "exec" /\ pc[c] = "exec_discard"
        /\ HasSection(event[c], "OVS_DP_ACTION_TRACK")
        /\ ~HasSection(event[c], "OVS_DP_ACTION_OUTPUT")

RegPlusOne(reg) ==
    IF reg[4] < Limb - 1 THEN <<reg[1], reg[2], reg[3], reg[4] + 1>>
    ELSE IF reg[3] < Limb - 1 THEN <<reg[1], reg[2], reg[3] + 1, 0>>
    ELSE IF reg[2] < Limb - 1 THEN <<reg[1], reg[2] + 1, 0, 0>>
    ELSE IF reg[1] < Limb - 1 THEN <<reg[1] + 1, 0, 0, 0>>
    ELSE ZeroReg

\* What C13 says of a state: every call of kprobe_get_func_ip returns: with the native primitive
\* on the running kernel the result is the primitive's, whatever the trapped
\* program counter; without it the result is the trapped program counter
\* minus 1 on 64 bits.  The capability, hence the branch, never changes from
\* one call to the next.
C13_Returned ==
    /\ kprobe.pc = "entry" => ENABLED KprobeGetFuncIp
    /\ kprobe.pc = "returned" =>
          IF kprobe.func_ip_exists
             THEN /\ kprobe.branch = "bpf_get_func_ip"
                  /\ kprobe.func_ip = kprobe.native
             ELSE /\ kprobe.branch = "PT_REGS_IP"
                  /\ RegPlusOne(kprobe.func_ip) = kprobe.ip

C13_SameBranch ==
    /\ kprobe'.func_ip_exists = kprobe.func_ip_exists
    /\ (kprobe.branch # "none" /\ kprobe'.branch # "none") =>
          kprobe'.branch = kprobe.branch

\* C13: kprobe_get_func_ip always returns, the primitive's result when the
\* capability exists and the trapped program counter minus 1 otherwise, by
\* the same branch at every call.
C13_GetFuncIp == []C13_Returned /\ [][C13_SameBranch]_vars

C13_Witness ==
    /\ kprobe.pc = "returned" /\ ~kprobe.func_ip_exists
    /\ kprobe.ip = ZeroReg
    /\ kprobe.func_ip = <<65535, 65535, 65535, 65535>>

\* C14: no step of either hook changes inflight_exec_cmd: the map changes
\* only in steps of the other hooks of the collector, which touch nothing of
\* a firing; the upcall hook never looks the map up, and the lookup of the
\* action hook is by the tid of the current task, nothing else.
C14_Step ==
    /\ inflight_exec_cmd' # inflight_exec_cmd =>
          <<pc, hook, ctx, loc, event, calls>>' =
              <<pc, hook, ctx, loc, event, calls>>
    /\ \A c \in CPUs :
          /\ (pc[c] = "track_lookup" /\ pc'[c] # pc[c]) =>
                /\ loc'[c].inflight = (ctx[c].tid \in inflight_exec_cmd)
                /\ ctx'[c].tid = ctx[c].tid
          /\ (Len(calls'[c]) > Len(calls[c])
              /\ calls'[c][Len(calls'[c])] =
                     "bpf_map_lookup_elem:inflight_exec_cmd") =>
                (hook[c] = "exec" /\ pc[c] = "track_lookup")

C14_TrackerReadOnly == [][C14_Step]_vars

C14_Witness ==
    \E c \in CPUs :
        /\ ExecDone(c) /\ TrackerHit(c)
        /\ inflight_exec_cmd = {ctx[c].tid}
        /\ loc[c].tracking = 1

\* The place of each statement in its hook.
Rank(p) ==
    CASE p = "idle" -> 0
      [] p \in {"up_arg", "exec_key"} -> 1
      [] p \in {"up_reserve", "exec_attr"} -> 2
      [] p \in {"up_fill", "exec_reserve"} -> 3
      [] p = "exec_fill" -> 4
      [] p = "track_lookup" -> 5
      [] p = "track_skb" -> 6
      [] p = "track_buff" -> 7
      [] p = "track_reserve" -> 8
      [] p = "track_hash" -> 9
      [] p = "track_queue_id" -> 10
      [] p = "exec_discard" -> 11
      [] p = "exec_switch" -> 12
      [] p = "exec_port" -> 13
      [] p = "done" -> 14

CountCalls(c, name) ==
    Cardinality({i \in DOMAIN calls[c] : calls[c][i] = name})

\* What C15 says of a state: each record kind is reserved at most once in a
\* firing, and a firing that has returned did so by a return statement.
C15_Once ==
    \A c \in CPUs :
        /\ \A i, j \in DOMAIN calls[c] :
              (IsReservation(calls[c][i]) /\ calls[c][i] = calls[c][j]) => i = j
        /\ pc[c] = "done" => (loc[c].outcome # "running" /\ loc[c].rc = 0)

\* What C15 says of a step: a firing only moves forward through its hook,
\* and once returned nothing of it changes until the CPU is free again.
C15_Forward ==
    \A c \in CPUs :
        /\ (Running(c) /\ <<pc[c], calls[c], event[c], loc[c]>>' #
                              <<pc[c], calls[c], event[c], loc[c]>>) =>
              Rank(pc'[c]) > Rank(pc[c])
        /\ pc[c] = "done" =>
              \/ <<pc[c], calls[c], event[c], loc[c]>>' =
                     <<pc[c], calls[c], event[c], loc[c]>>
              \/ pc'[c] = "idle"

\* C15: every firing of either hook returns, after at most as many steps as
\* its hook has statements, each statement run at most once and each record
\* kind reserved at most once, a failed reservation included.
C15_HandledOnce ==
    /\ []C15_Once
    /\ [][C15_Forward]_vars
    /\ \A c \in CPUs : Running(c) ~> pc[c] = "done"

C15_Witness ==
    \E c \in CPUs :
        /\ ExecDone(c)
        /\ Len(calls[c]) = 7
        /\ CountCalls(c, "get_event_section:OVS_DP_ACTION_OUTPUT") = 1
        /\ loc[c].output = 0

\* C16: an ActionTraceHook firing that got as far as the tracker lookup is
\* kept whenever the filters let the packet pass; on a tracker miss the event
\* is then the ActionRecord, without a TrackingRecord, followed by the
\* OutputRecord exactly for an OUTPUT action whose reservation succeeded.
C16_PassKeepsMiss ==
    \A c \in CPUs :
        (ExecDone(c) /\ LookedUp(c) /\ PacketPass(c)) =>
            /\ loc[c].outcome = "kept"
            /\ TrackerMiss(c) =>
                 /\ ~HasSection(event[c], "OVS_DP_ACTION_TRACK")
                 /\ OutputAttr(c) <=>
                        Called(c, "get_event_section:OVS_DP_ACTION_OUTPUT")
                 /\ event[c] = IF OutputAttr(c) /\ loc[c].output # 0
                                  THEN <<ExpectedAction(c), ExpectedOutput(c)>>
                                  ELSE <<ExpectedAction(c)>>

C16_Witness ==
    \E c \in CPUs :
        /\ ExecDone(c) /\ TrackerMiss(c) /\ PacketPass(c)
        /\ event[c] = <<ActionRecord(OVS_ACTION_ATTR_OUTPUT, MaxRecirc),
                        OutputRecord(MaxPort)>>

\* The conditions under which handle_tracking attaches a TrackingRecord.
TrackingAttached(c) ==
    /\ TrackerHit(c)
    /\ Called(c, "retis_get_sk_buff") /\ ctx[c].skb # NULL
    /\ Called(c, "bpf_map_lookup_elem:packet_buffers") /\ loc[c].buff # NULL
    /\ Called(c, "get_event_section:OVS_DP_ACTION_TRACK") /\ loc[c].track # 0

\* C17: the event of an ActionTraceHook firing has a TrackingRecord exactly
\* when the tracker lookup hit, the packet was read, the scratch buffer was
\* found and the reservation succeeded; after a tracker miss the firing reads
\* no packet, looks up no scratch buffer, asks for no TrackingRecord and
\* computes no fingerprint.
C17_TrackingExactlyOnHit ==
    \A c \in CPUs :
        hook[c] = "exec" =>
            /\ HasSection(event[c], "OVS_DP_ACTION_TRACK") => TrackingAttached(c)
            /\ (TrackingAttached(c)
                /\ pc[c] \in {"exec_discard", "exec_switch", "exec_port",
                              "done"}) =>
                  HasSection(event[c], "OVS_DP_ACTION_TRACK")
            /\ TrackerMiss(c) =>
                  /\ ~Called(c, "retis_get_sk_buff")
                  /\ ~Called(c, "bpf_map_lookup_elem:packet_buffers")
                  /\ ~Called(c, "get_event_section:OVS_DP_ACTION_TRACK")
                  /\ ~Called(c, "hash_skb")

C17_Witness ==
    \E c \in CPUs :
        /\ ExecDone(c) /\ TrackingAttached(c)
        /\ Len(event[c]) = 3
        /\ event[c][2].type = "OVS_DP_ACTION_TRACK"

\* What C18 says of a state: a firing looks the tracker up at most once, and
\* it is discarded exactly when that lookup missed and the filters did not
\* let the packet pass, whatever the map holds by then.
C18_Outcome ==
    \A c \in CPUs :
        hook[c] = "exec" =>
            /\ CountCalls(c, "bpf_map_lookup_elem:inflight_exec_cmd") <= 1
            /\ (pc[c] = "done" /\ LookedUp(c)) =>
                  (loc[c].outcome = "discarded" <=>
                       (~loc[c].inflight /\ ~PacketPass(c)))
            /\ HasSection(event[c], "OVS_DP_ACTION_TRACK") => loc[c].inflight

\* What C18 says of a step: the lookup reads the entry of the firing's own
\* task, and what it read stays what the firing goes by, whichever entries
\* are set or cleared meanwhile.
C18_Step ==
    \A c \in CPUs :
        /\ (pc[c] = "track_lookup" /\ pc'[c] # pc[c]) =>
              loc'[c].inflight = (ctx[c].tid \in inflight_exec_cmd)
        /\ (Running(c) /\ LookedUp(c) /\ pc'[c] # "idle") =>
              loc'[c].inflight = loc[c].inflight

\* C18: with firings on several CPUs and entries of the tracker set and
\* cleared in between, whether an ActionTraceHook firing is kept, and whether
\* it attaches a TrackingRecord, goes by the entry of its own task as read by
\* its one lookup.
C18_OwnEntryReadOnce == []C18_Outcome /\ [][C18_Step]_vars

C18_Witness ==
    \E c, d \in CPUs :
        /\ c # d
        /\ ExecDone(c) /\ TrackerHit(c) /\ loc[c].outcome = "kept"
        /\ ctx[c].tid \notin inflight_exec_cmd
        /\ ExecDone(d) /\ TrackerMiss(d) /\ loc[d].outcome = "discarded"
        /\ ctx[d].tid \in inflight_exec_cmd

C20_ReturnCodeLow32 ==
    \A c \in CPUs :
        (UpcallDone(c) /\ ctx[c].upcall # NULL /\ loc[c].enqueue # 0) =>
            LET ret == event[c][loc[c].enqueue].data.ret
                reg == ctx[c].ret
            IN  /\ ret >= (0 - Limb \div 2) * Limb
                /\ ret <= (Limb \div 2 - 1) * Limb + (Limb - 1)
                /\ ret % Limb = reg[4]
                /\ ((ret - reg[4]) \div Limb) % Limb = reg[3]
                /\ (reg[3] = 65535 /\ reg[4] = 65524) => ret = -12

C20_Witness ==
    \E c \in CPUs :
        /\ UpcallDone(c) /\ loc[c].enqueue # 0
        /\ ctx[c].ret = <<65535, 65535, 65535, 65524>>
        /\ event[c][loc[c].enqueue].data.ret = -12

====
